---- MODULE Spec2Model ----
(***************************************************************************)
(* NearDoer (src/app.py): the task table and its Open -> Accepted ->       *)
(* Completed lifecycle, the Streamlit script runs of the Poster and Helper *)
(* views that call into it, and the relevance ranking of open tasks.       *)
(*                                                                         *)
(* Every data function opens its own connection, executes ONE statement    *)
(* and commits (src/app.py:156-187).  SQLite serialises write transactions *)
(* on the database lock and a reader sees committed data only, so one      *)
(* statement is one step of the model; the steps of different script runs  *)
(* interleave freely.                                                      *)
(***************************************************************************)
EXTENDS Integers, Sequences, FiniteSets, TLC

\* ------------------------------------------------------------- bounds
\* The data-function calls of one behaviour (each call reads the clock once).
MaxCalls == 4

\* The tasks of one candidate list handed to the ranking.
MaxCand == 3

\* SQL NULL (Python None) in an INTEGER or TEXT column; row ids start at 1.
NULL == 0

\* ------------------------------------------------------------- users
\* Rows of the users table (id, role); role is one of the two values the
\* CHECK constraint allows.
Users ==
    { [id |-> 1, role |-> "Poster"], [id |-> 2, role |-> "Poster"],
      [id |-> 3, role |-> "Helper"], [id |-> 4, role |-> "Helper"] }

UserIds == { u.id : u \in Users }

\* One browser session per logged-in user: st.session_state["user"].
Sessions == { "s1", "s2", "s3", "s4" }

SessionUser(s) ==
    CASE s = "s1" -> CHOOSE u \in Users : u.id = 1
      [] s = "s2" -> CHOOSE u \in Users : u.id = 2
      [] s = "s3" -> CHOOSE u \in Users : u.id = 3
      [] s = "s4" -> CHOOSE u \in Users : u.id = 4

VARIABLES
    tasks,            \* the rows of table tasks
    sqlite_sequence,  \* AUTOINCREMENT: the largest task id ever handed out
    clock,            \* datetime.utcnow()
    last_call,        \* the last data-function call and its cursor.rowcount
    accept_wins,      \* history: the accept_task calls whose UPDATE changed a row
    run,              \* per session: the script run and what the page shows
    rank_tasks,       \* rank_tasks_by_match: its argument tasks
    rank_query,       \* rank_tasks_by_match: its argument helper_keywords
    rank_result,      \* rank_tasks_by_match: what the call returned or raised
    rank_path,        \* who ranked: a direct call or the Helper view's line
    stats,            \* one get_stats call: its position and what it has read
    users,            \* the rows of table users written by sign-up
    signup            \* per browser: the "Create account" script run

db_vars == << tasks, sqlite_sequence, clock, last_call, accept_wins >>
rank_vars == << rank_tasks, rank_query, rank_result, rank_path >>
acct_vars == << stats, users, signup >>
vars == << db_vars, run, rank_vars, acct_vars >>

\* ------------------------------------------------------------- the table
TaskIds == { t.id : t \in tasks }

\* datetime.utcnow() of one call: every call commits to disk before the next
\* one reads the clock, so each call sees a later instant than the one before.
Nows == { n \in { clock + 1 } : n <= MaxCalls }

\* ------------------------------------------------------------- mutants
\* An INSERT that leaves updated_at out.
NewTaskNoUpdated(id, posted_by, now) ==
    [ id |-> id, status |-> "Open", posted_by |-> posted_by,
      accepted_by |-> NULL, created_at |-> now, updated_at |-> NULL ]

\* An UPDATE guarded by the id alone (read, then write unconditionally).
AcceptWhereAnyStatus(t, task_id) == t.id = task_id

\* An UPDATE that forgets accepted_by.
AcceptSetStatusOnly(t, helper_id, now) ==
    [ t EXCEPT !.status = "Accepted", !.updated_at = now ]

\* An UPDATE that only refuses finished tasks (status <> 'Completed').
AcceptWhereNotCompleted(t, task_id) == t.id = task_id /\ t.status # "Completed"

\* A completion that only refuses tasks nobody accepted (status <> 'Open').
CompleteWhereNotOpen(t, task_id) == t.id = task_id /\ t.status # "Open"

\* A completion guarded by the id alone.
CompleteWhereAnyStatus(t, task_id) == t.id = task_id

\* A completion that clears the accepter.
CompleteSetClearsAccepter(t, now) ==
    [ t EXCEPT !.status = "Completed", !.accepted_by = NULL,
               !.updated_at = now ]

\* "Your Tasks" without its posted_by filter.
PosterRowsAll(uid) == tasks

\* ------------------------------------------------------------- statements
\* INTEGER PRIMARY KEY AUTOINCREMENT: one more than the largest id ever used.
NextRowId == sqlite_sequence + 1

\* create_task's INSERT: status 'Open', accepted_by not listed (NULL),
\* created_at and updated_at both `now`.
NewTask(id, posted_by, now) ==
    [ id |-> id, status |-> "Open", posted_by |-> posted_by,
      accepted_by |-> NULL, created_at |-> now, updated_at |-> now ]

\* accept_task's UPDATE: WHERE id=? AND status='Open'
AcceptWhere(t, task_id) == t.id = task_id /\ t.status = "Open"

\* accept_task's UPDATE: SET status='Accepted', accepted_by=?, updated_at=?
AcceptSet(t, helper_id, now) ==
    [ t EXCEPT !.status = "Accepted", !.accepted_by = helper_id,
               !.updated_at = now ]

\* complete_task's UPDATE: WHERE id=? AND status='Accepted'
CompleteWhere(t, task_id) == t.id = task_id /\ t.status = "Accepted"

\* complete_task's UPDATE: SET status='Completed', updated_at=?
CompleteSet(t, now) ==
    [ t EXCEPT !.status = "Completed", !.updated_at = now ]

Call(fn, task, arg, by, rowcount) ==
    [ fn |-> fn, task |-> task, arg |-> arg, by |-> by,
      rowcount |-> rowcount, tick |-> 1 - last_call.tick ]

\* ------------------------------------------------------------- data functions
create_task(posted_by, by, now) ==
    /\ tasks' = tasks \cup { NewTask(NextRowId, posted_by, now) }
    /\ sqlite_sequence' = NextRowId
    /\ clock' = now
    /\ last_call' = Call("create", NextRowId, posted_by, by, 1)
    /\ UNCHANGED accept_wins

accept_task(task_id, helper_id, by, now) ==
    LET hit == { t \in tasks : AcceptWhere(t, task_id) } IN
    /\ tasks' = { IF t \in hit THEN AcceptSet(t, helper_id, now) ELSE t
                  : t \in tasks }
    /\ clock' = now
    /\ last_call' = Call("accept", task_id, helper_id, by, Cardinality(hit))
    /\ accept_wins' = accept_wins \cup
           { [ task |-> t.id, helper |-> helper_id ] : t \in hit }
    /\ UNCHANGED sqlite_sequence

complete_task(task_id, by, now) ==
    LET hit == { t \in tasks : CompleteWhere(t, task_id) } IN
    /\ tasks' = { IF t \in hit THEN CompleteSet(t, now) ELSE t : t \in tasks }
    /\ clock' = now
    /\ last_call' = Call("complete", task_id, NULL, by, Cardinality(hit))
    /\ UNCHANGED << sqlite_sequence, accept_wins >>

\* ------------------------------------------------------------- ranking
\* A text is the sequence of its whitespace-separated words.  The vectorizer
\* is TfidfVectorizer(stop_words="english", ngram_range=(1, 2)) with its
\* defaults: lowercase, token_pattern (?u)\b\w\w+\b, smooth idf, l2 norm.

\* str.lower() on the words of the model.
Lower(w) ==
    CASE w = "Assemble"  -> "assemble"
      [] w = "Assembly"  -> "assembly"
      [] w = "Furniture" -> "furniture"
      [] w = "Mow"       -> "mow"
      [] w = "Yardwork"  -> "yardwork"
      [] w = "Do"        -> "do"
      [] w = "Other"     -> "other"
      [] OTHER           -> w

\* Words of one character: token_pattern wants two word characters or more.
OneChar == { "a", "I" }

\* A run of blanks: the one element of a text that is whitespace only.
Blanks == { " " }

\* The words of the model that are in sklearn's ENGLISH_STOP_WORDS.
StopWords == { "do", "it", "for", "me", "other", "anything", "the" }

Range(f) == { f[i] : i \in DOMAIN f }

\* build_preprocessor, then build_tokenizer.
Tokenize(text) ==
    LET lowered == [ i \in DOMAIN text |-> Lower(text[i]) ]
        Long(w) == w \notin OneChar \cup Blanks
    IN SelectSeq(lowered, Long)

\* An analyzer without stop_words="english".
AnalyzeKeepStopWords(text) ==
    LET toks == Tokenize(text)
        unigrams == [ i \in 1 .. Len(toks) |-> << toks[i] >> ]
        bigrams == IF Len(toks) < 2 THEN << >>
                   ELSE [ i \in 1 .. (Len(toks) - 1) |-> << toks[i], toks[i + 1] >> ]
    IN unigrams \o bigrams

\* build_analyzer: stop words are removed first, then the unigrams and the
\* bigrams of what is left are the terms.
Analyze(text) ==
    LET Content(w) == w \notin StopWords
        toks == SelectSeq(Tokenize(text), Content)
        unigrams == [ i \in 1 .. Len(toks) |-> << toks[i] >> ]
        bigrams == IF Len(toks) < 2 THEN << >>
                   ELSE [ i \in 1 .. (Len(toks) - 1) |-> << toks[i], toks[i + 1] >> ]
    IN unigrams \o bigrams

\* Term frequency: the occurrences of a term among the terms of a document.
Tf(term, terms) == Cardinality({ i \in DOMAIN terms : terms[i] = term })

\* 10 * ln(k), rounded, for the k the corpus sizes of the model reach.
Ln10(k) ==
    CASE k = 1 -> 0   [] k = 2 -> 7   [] k = 3 -> 11  [] k = 4 -> 14
      [] k = 5 -> 16  [] k = 6 -> 18  [] k = 7 -> 19  [] k = 8 -> 21
      [] k = 9 -> 22  [] OTHER -> 23

\* smooth_idf: idf = ln((1 + n) / (1 + df)) + 1, in tenths.
Idf(n, df) == 10 + Ln10(1 + n) - Ln10(1 + df)

RECURSIVE SumOver(_, _)
SumOver(S, f) ==
    IF S = {} THEN 0
    ELSE LET x == CHOOSE y \in S : TRUE IN f[x] + SumOver(S \ { x }, f)

RECURSIVE Isqrt(_)
Isqrt(n) ==
    IF n < 2 THEN n
    ELSE LET r == 2 * Isqrt(n \div 4)
         IN IF (r + 1) * (r + 1) <= n THEN r + 1 ELSE r

\* cosine_similarity of two tf-idf rows, in thousandths rounded down; a row
\* without terms has norm 0 and similarity 0.
Cosine(d, q) ==
    LET vocab == DOMAIN d
        dot == SumOver(vocab, [ term \in vocab |-> d[term] * q[term] ])
        nd == SumOver(vocab, [ term \in vocab |-> d[term] * d[term] ])
        nq == SumOver(vocab, [ term \in vocab |-> q[term] * q[term] ])
    IN IF nd = 0 \/ nq = 0 THEN 0 ELSE (dot * 1000) \div Isqrt(nd * nq)

\* docs = [f"{t[1]} {t[2]} {t[3]}" for t in tasks]
Doc(t) == t.title \o t.description \o t.category

\* list.sort(key=score, reverse=True) places an element after every element
\* whose score is greater or equal: the sort is stable, also when reversed.
InsertByScore(sorted, x) ==
    LET k == Cardinality({ i \in DOMAIN sorted : sorted[i][2] >= x[2] })
    IN SubSeq(sorted, 1, k) \o << x >> \o SubSeq(sorted, k + 1, Len(sorted))

RECURSIVE SortByScore(_)
SortByScore(pairs) ==
    IF pairs = << >> THEN << >>
    ELSE InsertByScore(SortByScore(SubSeq(pairs, 1, Len(pairs) - 1)),
                       pairs[Len(pairs)])

Pending == [ state |-> "pending", value |-> << >> ]
Returned(v) == [ state |-> "returned", value |-> v ]
Raised(e) == [ state |-> "raised", value |-> << e >> ]

\* fit_transform([*docs, query]) and cosine_similarity(X[:-1], X[-1]).
Scores(task_list, query) ==
    LET corpus == [ i \in 1 .. Len(task_list) |-> Analyze(Doc(task_list[i])) ]
                  \o << Analyze(query) >>
        n == Len(corpus)
        Df(term) == Cardinality({ i \in 1 .. n : term \in Range(corpus[i]) })
        vocab == UNION { Range(corpus[i]) : i \in 1 .. n }
        X == [ i \in 1 .. n |->
                 [ term \in vocab |-> Tf(term, corpus[i]) * Idf(n, Df(term)) ] ]
    IN [ i \in 1 .. Len(task_list) |-> Cosine(X[i], X[n]) ]

\* The vocabulary fit_transform builds; it raises ValueError("empty
\* vocabulary; perhaps the documents only contain stop words") on none.
Vocabulary(task_list, query) ==
    UNION { Range(Analyze(Doc(task_list[i]))) : i \in 1 .. Len(task_list) }
    \cup Range(Analyze(query))

\* The ranking without the early return of line 220.
RankWithoutEmptyReturn(task_list, helper_keywords) ==
    IF Vocabulary(task_list, helper_keywords) = {} THEN Raised("ValueError")
    ELSE LET scores == Scores(task_list, helper_keywords)
             with_scores == [ i \in 1 .. Len(task_list) |-> << task_list[i], scores[i] >> ]
         IN Returned(SortByScore(with_scores))

rank_tasks_by_match(task_list, helper_keywords) ==
    IF task_list = << >> THEN Returned(<< >>)
    ELSE IF Vocabulary(task_list, helper_keywords) = {} THEN Raised("ValueError")
    ELSE LET scores == Scores(task_list, helper_keywords)
             with_scores == [ i \in 1 .. Len(task_list) |-> << task_list[i], scores[i] >> ]
         IN Returned(SortByScore(with_scores))

\* ------------------------------------------------------------- accounts
Browsers == { "b1", "b2" }

StatsIdle ==
    [ pc |-> "idle", users |-> 0, posted |-> 0, accepted |-> 0, completed |-> 0,
      accepted_ids |-> {}, completed_ids |-> {}, overlapped |-> FALSE ]

SignupIdle == [ pc |-> "idle", email |-> << >>, role |-> "none", uid |-> NULL ]

\* A ranking that sorts the list it was given (tasks.sort(...) in place).
TasksAfterRankSortedInPlace(task_list, helper_keywords) ==
    LET r == rank_tasks_by_match(task_list, helper_keywords)
    IN IF r.state = "returned"
       THEN [ i \in DOMAIN r.value |-> r.value[i][1] ]
       ELSE task_list

\* with_scores = list(zip(tasks, scores)) is a new list and the sort is on
\* it: the list passed in is left as it was.
TasksAfterRank(task_list, helper_keywords) == task_list

\* bool(str): only the empty string is false.
Truthy(text) == text # << >>

\* Helper view: ranked = rank_tasks_by_match(open_tasks, skills) if skills
\* else [(t, 0.0) for t in open_tasks]
HelperRanked(open_tasks, skills) ==
    IF Truthy(skills) THEN rank_tasks_by_match(open_tasks, skills)
    ELSE Returned([ i \in 1 .. Len(open_tasks) |-> << open_tasks[i], 0 >> ])

\* ------------------------------------------------------------- script runs
\* A main body that shows Find Tasks to every logged-in user.
HelperViewForAnyRole(user) == TRUE

\* if user["role"] == "Poster": the Post a Task and My Posted Tasks columns.
PosterView(user) == user.role = "Poster"

\* else: the Find Tasks column with its Accept buttons.
HelperView(user) == ~ PosterView(user)

Idle == [ pc |-> "idle", clicked |-> 0, buttons |-> {}, msg |-> "none",
          msg_task |-> 0 ]

\* Poster view: SELECT id,title,description,status FROM tasks WHERE posted_by=?
PosterRows(uid) == { t \in tasks : t.posted_by = uid }

\* Poster view: "Mark Completed" is rendered for the rows read as Accepted.
PosterButtons(uid) == { t.id : t \in { r \in PosterRows(uid) : r.status = "Accepted" } }

\* Helper view: SELECT * FROM tasks WHERE status='Open' AND zip=? (every task
\* of the model lies in the helper's ZIP filter, category "All").
HelperRows == { t \in tasks : t.status = "Open" }

\* Helper view: "Accept Task" is rendered for every row read.
HelperButtons == { t.id : t \in HelperRows }

\* Poster view, form "post_task" submitted: create_task, "Task posted!"; the
\* run goes on to the SELECT of "Your Tasks".
PosterPost(s) ==
    /\ PosterView(SessionUser(s))
    /\ run[s].pc = "idle"
    /\ \E now \in Nows : create_task(SessionUser(s).id, SessionUser(s).id, now)
    /\ run' = [ run EXCEPT ![s] = [ @ EXCEPT !.pc = "select", !.clicked = 0,
                    !.msg = "Task posted!", !.msg_task = NextRowId ] ]
    /\ UNCHANGED << rank_vars, acct_vars >>

\* Poster view: the SELECT of a script run.  `click` is the button that
\* started the run (0: none, some other widget); a button can be clicked only
\* where the page rendered it, and st.button returns True only if this run
\* renders it again.
PosterSelect(s, click) ==
    /\ PosterView(SessionUser(s))
    /\ \/ run[s].pc = "idle" /\ click \in run[s].buttons \cup {0}
       \/ run[s].pc = "select" /\ click = 0
    /\ LET shown == PosterButtons(SessionUser(s).id) IN
       run' = [ run EXCEPT ![s] =
                  IF click \in shown
                  THEN [ pc |-> "call", clicked |-> click, buttons |-> shown,
                         msg |-> "none", msg_task |-> 0 ]
                  ELSE [ pc |-> "idle", clicked |-> 0, buttons |-> shown,
                         msg |-> IF run[s].pc = "select" THEN run[s].msg ELSE "none",
                         msg_task |-> IF run[s].pc = "select" THEN run[s].msg_task ELSE 0 ] ]
    /\ UNCHANGED << db_vars, rank_vars, acct_vars >>

\* Poster view: "Mark Completed" returned True: complete_task(tid), then
\* st.success whatever the UPDATE did.
PosterComplete(s) ==
    /\ PosterView(SessionUser(s))
    /\ run[s].pc = "call"
    /\ \E now \in Nows : complete_task(run[s].clicked, SessionUser(s).id, now)
    /\ run' = [ run EXCEPT ![s] = [ @ EXCEPT !.pc = "idle", !.clicked = 0,
                    !.msg = "Completed!", !.msg_task = run[s].clicked ] ]
    /\ UNCHANGED << rank_vars, acct_vars >>

\* Helper view: the SELECT of a script run (see PosterSelect for `click`).
HelperSelect(s, click) ==
    /\ HelperView(SessionUser(s))
    /\ run[s].pc = "idle"
    /\ click \in run[s].buttons \cup {0}
    /\ LET shown == HelperButtons IN
       run' = [ run EXCEPT ![s] =
                  IF click \in shown
                  THEN [ pc |-> "call", clicked |-> click, buttons |-> shown,
                         msg |-> "none", msg_task |-> 0 ]
                  ELSE [ pc |-> "idle", clicked |-> 0, buttons |-> shown,
                         msg |-> "none", msg_task |-> 0 ] ]
    /\ UNCHANGED << db_vars, rank_vars, acct_vars >>

\* Helper view: "Accept Task" returned True: accept_task(tid, user["id"]),
\* then st.success("Accepted! ...") whatever the UPDATE did.
HelperAccept(s) ==
    /\ HelperView(SessionUser(s))
    /\ run[s].pc = "call"
    /\ \E now \in Nows :
          accept_task(run[s].clicked, SessionUser(s).id, SessionUser(s).id, now)
    /\ run' = [ run EXCEPT ![s] = [ @ EXCEPT !.pc = "idle", !.clicked = 0,
                    !.msg = "Accepted!", !.msg_task = run[s].clicked ] ]
    /\ UNCHANGED << rank_vars, acct_vars >>

\* ------------------------------------------------------------- specification
\* init_db on a new data.db: the tables are empty.
DbInit ==
    /\ tasks = {}
    /\ sqlite_sequence = 0
    /\ clock = 0
    /\ last_call = [ fn |-> "none", task |-> 0, arg |-> NULL, by |-> NULL,
                     rowcount |-> 0, tick |-> 0 ]
    /\ accept_wins = {}

\* No get_stats call and no sign-up under way.
AcctInit ==
    /\ stats = StatsIdle
    /\ users = {}
    /\ signup = [ b \in Browsers |-> SignupIdle ]

Init ==
    /\ DbInit
    /\ AcctInit
    /\ run = [ s \in Sessions |-> Idle ]
    /\ rank_tasks = << >>
    /\ rank_query = << >>
    /\ rank_result = Pending
    /\ rank_path = "none"

Next ==
    \/ \E s \in Sessions : PosterPost(s)
    \/ \E s \in Sessions : \E click \in 0 .. MaxCalls : PosterSelect(s, click)
    \/ \E s \in Sessions : PosterComplete(s)
    \/ \E s \in Sessions : \E click \in 0 .. MaxCalls : HelperSelect(s, click)
    \/ \E s \in Sessions : HelperAccept(s)

Spec == Init /\ [][Next]_vars

\* ------------------------------------------------------------- direct calls
\* The data functions called by any caller with any arguments, a task id
\* that names no row included.
TaskIdArgs == TaskIds \cup { NextRowId }

ApiCreate(posted_by) ==
    /\ \E now \in Nows : create_task(posted_by, NULL, now)
    /\ UNCHANGED << run, rank_vars, acct_vars >>

ApiAccept(task_id, helper_id) ==
    /\ \E now \in Nows : accept_task(task_id, helper_id, NULL, now)
    /\ UNCHANGED << run, rank_vars, acct_vars >>

ApiComplete(task_id) ==
    /\ \E now \in Nows : complete_task(task_id, NULL, now)
    /\ UNCHANGED << run, rank_vars, acct_vars >>

ApiNext ==
    \/ \E p \in UserIds : ApiCreate(p)
    \/ \E tid \in TaskIdArgs : \E h \in UserIds : ApiAccept(tid, h)
    \/ \E tid \in TaskIdArgs : ApiComplete(tid)

SpecApi == Init /\ [][ApiNext]_vars

\* ------------------------------------------------------------- ranking calls
\* The candidate lists reach MaxCand tasks.
TaskTexts ==
    { [ title |-> << "Assemble", "shelf" >>,
        description |-> << "furniture", "assembly", "needed" >>,
        category |-> << "Assembly" >> ],
      [ title |-> << "Mow", "lawn" >>,
        description |-> << "yard", "cleanup" >>,
        category |-> << "Yardwork" >> ],
      [ title |-> << "Furniture" >>,
        description |-> << "assembly", "for", "me" >>,
        category |-> << "Other" >> ],
      [ title |-> << "Do", "it" >>,
        description |-> << "for", "me" >>,
        category |-> << "Other" >> ] }

Queries ==
    { << >>, << " " >>, << "furniture", "assembly" >>, << "yard" >>,
      << "plumbing" >>, << "anything" >>, << "it" >>, << "a" >> }

\* SELECT ... ORDER BY id DESC: the rows come with distinct, falling ids.
Candidates(texts) ==
    [ i \in 1 .. Len(texts) |->
        [ id |-> Len(texts) - i + 1, title |-> texts[i].title,
          description |-> texts[i].description,
          category |-> texts[i].category ] ]

CandidateLists ==
    { Candidates(texts) :
        texts \in UNION { [ 1 .. n -> TaskTexts ] : n \in 0 .. MaxCand } }

RankInit ==
    /\ DbInit
    /\ AcctInit
    /\ run = [ s \in Sessions |-> Idle ]
    /\ rank_tasks \in CandidateLists
    /\ rank_query \in Queries
    /\ rank_result = Pending
    /\ rank_path = "none"

\* rank_tasks_by_match(tasks, helper_keywords) called directly.
RankCall ==
    /\ rank_result' = rank_tasks_by_match(rank_tasks, rank_query)
    /\ rank_tasks' = TasksAfterRank(rank_tasks, rank_query)
    /\ rank_path' = "direct"
    /\ UNCHANGED << db_vars, run, rank_query, acct_vars >>

\* The Helper view ranking open_tasks for user["skills"].
HelperRank ==
    /\ rank_result' = HelperRanked(rank_tasks, rank_query)
    /\ rank_tasks' = IF Truthy(rank_query)
                     THEN TasksAfterRank(rank_tasks, rank_query)
                     ELSE rank_tasks
    /\ rank_path' = "helper"
    /\ UNCHANGED << db_vars, run, rank_query, acct_vars >>

RankNext == RankCall \/ HelperRank

SpecRank == RankInit /\ [][RankNext]_vars

\* ------------------------------------------------------------- stats
\* get_stats runs four SELECT COUNT(*) statements on one connection with no
\* transaction around them: each sees the table as it is when it runs, and
\* the data functions of other sessions commit in between.  stats holds the
\* position of one call and what it has read; accepted_ids and completed_ids
\* are the rows behind the two counts, and overlapped says that a row was
\* written after the call's first SELECT and before its last.

\* A count of the tasks that have left Open.
AcceptedRowsNotOpen == { t \in tasks : t.status # "Open" }

\* SELECT COUNT(*) FROM tasks WHERE status='Accepted'
AcceptedRows == { t \in tasks : t.status = "Accepted" }

\* SELECT COUNT(*) FROM tasks WHERE status='Completed'
CompletedRows == { t \in tasks : t.status = "Completed" }

StatsRunning == stats.pc \in { "posted", "accepted", "completed" }

\* SELECT COUNT(*) FROM users
StatsUsers ==
    /\ stats.pc \in { "idle", "done" }
    /\ stats' = [ StatsIdle EXCEPT !.pc = "posted", !.users = Cardinality(Users) ]
    /\ UNCHANGED << db_vars, run, rank_vars, users, signup >>

\* SELECT COUNT(*) FROM tasks
StatsPosted ==
    /\ stats.pc = "posted"
    /\ stats' = [ stats EXCEPT !.pc = "accepted", !.posted = Cardinality(tasks) ]
    /\ UNCHANGED << db_vars, run, rank_vars, users, signup >>

StatsAccepted ==
    /\ stats.pc = "accepted"
    /\ stats' = [ stats EXCEPT !.pc = "completed",
                               !.accepted = Cardinality(AcceptedRows),
                               !.accepted_ids = { t.id : t \in AcceptedRows } ]
    /\ UNCHANGED << db_vars, run, rank_vars, users, signup >>

\* The last SELECT, and return users, posted, accepted, completed.
StatsCompleted ==
    /\ stats.pc = "completed"
    /\ stats' = [ stats EXCEPT !.pc = "done",
                               !.completed = Cardinality(CompletedRows),
                               !.completed_ids = { t.id : t \in CompletedRows } ]
    /\ UNCHANGED << db_vars, run, rank_vars, users, signup >>

\* A data function of another session commits; the call in progress, if
\* there is one, has been overlapped when a row was written.
Overlap ==
    stats' = IF StatsRunning /\ tasks' # tasks
             THEN [ stats EXCEPT !.overlapped = TRUE ] ELSE stats

StatsCreate(posted_by) ==
    /\ \E now \in Nows : create_task(posted_by, NULL, now)
    /\ Overlap
    /\ UNCHANGED << run, rank_vars, users, signup >>

StatsAccept(task_id, helper_id) ==
    /\ \E now \in Nows : accept_task(task_id, helper_id, NULL, now)
    /\ Overlap
    /\ UNCHANGED << run, rank_vars, users, signup >>

StatsComplete(task_id) ==
    /\ \E now \in Nows : complete_task(task_id, NULL, now)
    /\ Overlap
    /\ UNCHANGED << run, rank_vars, users, signup >>

StatsNext ==
    \/ StatsUsers
    \/ StatsPosted
    \/ StatsAccepted
    \/ StatsCompleted
    \/ \E p \in UserIds : StatsCreate(p)
    \/ \E tid \in TaskIds : \E h \in UserIds : StatsAccept(tid, h)
    \/ \E tid \in TaskIds : StatsComplete(tid)

SpecStats == Init /\ [][StatsNext]_vars

\* ------------------------------------------------------------- sign-up
\* An email is the sequence of its pieces, a run of blanks being one piece.
\* users holds the rows create_account has inserted; signup holds, for each
\* browser that is not logged in, where its Create account click stands.

\* str.lower() on the pieces of the model.
LowerPiece(c) ==
    CASE c = "A" -> "a"
      [] c = "B" -> "b"
      [] OTHER   -> c

\* str.strip()
RECURSIVE Strip(_)
Strip(text) ==
    IF text = << >> THEN text
    ELSE IF Head(text) \in Blanks THEN Strip(Tail(text))
    ELSE IF text[Len(text)] \in Blanks THEN Strip(SubSeq(text, 1, Len(text) - 1))
    ELSE text

\* email.strip().lower()
NormalizeEmail(raw) ==
    LET stripped == Strip(raw)
    IN [ i \in DOMAIN stripped |-> LowerPiece(stripped[i]) ]

\* SELECT ... FROM users WHERE email = ?  (the rows found; fetchone takes one)
get_user_by_email(email) == { u \in users : u.email = email }

\* A users table without idx_users_email.
NoEmailIndex(email) == FALSE

\* CREATE UNIQUE INDEX idx_users_email ON users(email): the INSERT of a row
\* whose email is in the index raises sqlite3.IntegrityError.
EmailIndexed(email) == \E u \in users : u.email = email

\* users.id INTEGER PRIMARY KEY AUTOINCREMENT; no statement deletes a user.
NextUserId == Cardinality(users) + 1

\* What is typed into the Email field.
RawEmails ==
    { << >>, << "A", "@x.com" >>, << " ", "a", "@x.com" >>, << "a", "@x.com", " " >>,
      << "b", "@x.com" >> }

\* st.selectbox("Role", ["Poster","Helper"])
Roles == { "Poster", "Helper" }

\* The click on Create account, up to the existence check.
SignupSubmit(b, raw, role) ==
    /\ signup[b].pc \in { "idle", "invalid", "exists", "failed" }
    /\ signup' = [ signup EXCEPT ![b] =
          IF raw = << >>
          THEN [ SignupIdle EXCEPT !.pc = "invalid" ]
          ELSE IF get_user_by_email(NormalizeEmail(raw)) # {}
          THEN [ SignupIdle EXCEPT !.pc = "exists", !.email = raw ]
          ELSE [ SignupIdle EXCEPT !.pc = "checked", !.email = raw, !.role = role ] ]
    /\ UNCHANGED << db_vars, run, rank_vars, stats, users >>

\* create_account: the INSERT and its commit, then the auto-login.
SignupCreate(b) ==
    /\ signup[b].pc = "checked"
    /\ LET email == NormalizeEmail(signup[b].email)
       IN IF EmailIndexed(email)
          THEN /\ users' = users
               /\ signup' = [ signup EXCEPT ![b].pc = "failed" ]
          ELSE /\ users' = users \cup { [ id |-> NextUserId, email |-> email,
                                          role |-> signup[b].role ] }
               /\ signup' = [ signup EXCEPT ![b].pc = "created", ![b].uid = NextUserId ]
    /\ UNCHANGED << db_vars, run, rank_vars, stats >>

\* Log out: the Sign up tab is shown again.
SignupLogout(b) ==
    /\ signup[b].pc = "created"
    /\ signup' = [ signup EXCEPT ![b] = SignupIdle ]
    /\ UNCHANGED << db_vars, run, rank_vars, stats, users >>

SignupNext ==
    \/ \E b \in Browsers : \E raw \in RawEmails : \E role \in Roles : SignupSubmit(b, raw, role)
    \/ \E b \in Browsers : SignupCreate(b)
    \/ \E b \in Browsers : SignupLogout(b)

SpecSignup == Init /\ [][SignupNext]_vars

\* ------------------------------------------------------------- lifecycle claims
Called(fn) == last_call'.tick # last_call.tick /\ last_call'.fn = fn

Poster(s) == SessionUser(s).role = "Poster"
Helper(s) == SessionUser(s).role = "Helper"

\* C1: when several helpers call accept on the same Open task, exactly one call
\* changes the row: a task is Open iff no accept call has won it, and a task
\* that is not Open has exactly one winning call, by its accepter, for ever.
AcceptExactlyOneWinner ==
    \A t \in tasks :
        LET won == { a \in accept_wins : a.task = t.id } IN
        IF t.status = "Open"
        THEN won = {} /\ t.accepted_by = NULL
        ELSE Cardinality(won) = 1 /\ \A a \in won : a.helper = t.accepted_by

\* Two helpers read the task as Open, both called accept_task, the second
\* call changed nothing.
AcceptRaceLost ==
    \E t \in tasks : \E s \in Sessions :
        /\ Helper(s) /\ run[s].msg = "Accepted!" /\ run[s].msg_task = t.id
        /\ t.status = "Accepted" /\ t.accepted_by # SessionUser(s).id
        /\ last_call.fn = "accept" /\ last_call.by = SessionUser(s).id
        /\ last_call.rowcount = 0

\* C2: a helper whose accept call changed no row is not told the task was
\* accepted by them: whoever sees "Accepted!" for a task is its accepter.
AcceptedMessageOnlyToAccepter ==
    \A s \in Sessions :
        (Helper(s) /\ run[s].msg = "Accepted!") =>
            \E t \in tasks : t.id = run[s].msg_task
                               /\ t.accepted_by = SessionUser(s).id

\* C3: accepted_by is non-null iff status is Accepted or Completed, in every
\* state between calls.
AccepterIffAcceptedOrCompleted ==
    \A t \in tasks :
        (t.accepted_by # NULL) <=> (t.status \in { "Accepted", "Completed" })

AcceptedAndOpenTasks ==
    /\ \E t \in tasks : t.status = "Completed" /\ t.accepted_by \in UserIds
    /\ \E t \in tasks : t.status = "Open" /\ t.accepted_by = NULL

\* C4: a status stays or moves one step forward, Open -> Accepted ->
\* Completed; a new task starts Open; no task disappears.
ForwardSteps ==
    { << "Open", "Open" >>, << "Open", "Accepted" >>,
      << "Accepted", "Accepted" >>, << "Accepted", "Completed" >>,
      << "Completed", "Completed" >> }

StatusOnlyMovesForward ==
    [][ /\ \A t \in tasks : \E u \in tasks' :
              u.id = t.id /\ << t.status, u.status >> \in ForwardSteps
        /\ \A u \in tasks' : u.id \notin TaskIds => u.status = "Open" ]_vars

CompletedThenCalledAgain ==
    \E t \in tasks :
        /\ t.status = "Completed" /\ last_call.task = t.id
        /\ last_call.fn = "accept" /\ last_call.rowcount = 0

\* C5: complete on a task that is not Accepted changes no field of any task;
\* on an Accepted task it makes that task Completed.
CompleteOnlyFromAccepted ==
    [][ Called("complete") =>
          IF \E t \in tasks : t.id = last_call'.task /\ t.status = "Accepted"
          THEN \E u \in tasks' : u.id = last_call'.task /\ u.status = "Completed"
          ELSE tasks' = tasks /\ last_call'.rowcount = 0 ]_vars

CompleteCalledTwice ==
    \E t \in tasks :
        /\ t.status = "Completed" /\ last_call.task = t.id
        /\ last_call.fn = "complete" /\ last_call.rowcount = 0
        /\ t.updated_at < clock

\* C6: accept on a task that is Accepted, Completed or missing changes no
\* task, adds no task and hands out no id.
AcceptOnNonOpenIsNoOp ==
    [][ ( /\ Called("accept")
          /\ ~ \E t \in tasks : t.id = last_call'.task /\ t.status = "Open" )
        => /\ tasks' = tasks
           /\ sqlite_sequence' = sqlite_sequence
           /\ last_call'.rowcount = 0 ]_vars

AcceptCalledOnMissingTask ==
    /\ last_call.fn = "accept" /\ last_call.task \notin TaskIds
    /\ last_call.rowcount = 0 /\ tasks # {}

\* C7: no call changes a task's id or posted_by, and an accepted_by that is
\* set never changes.
AccepterAndPosterImmutable ==
    [][ \A t \in tasks : \E u \in tasks' :
            /\ u.id = t.id /\ u.posted_by = t.posted_by
            /\ (t.accepted_by # NULL => u.accepted_by = t.accepted_by) ]_vars

CompletedKeepsAccepter ==
    \E t \in tasks :
        /\ t.status = "Completed" /\ t.accepted_by \in UserIds
        /\ last_call.fn = "complete" /\ last_call.task = t.id
        /\ last_call.rowcount = 1

\* C8: every complete_task call of the application is made by the logged-in
\* poster of the task it names, so whoever completed a task posted it.
OnlyThePosterCompletes ==
    /\ \A s \in Sessions :
          (Poster(s) /\ run[s].pc = "call") =>
              \E t \in tasks : t.id = run[s].clicked
                                 /\ t.posted_by = SessionUser(s).id
    /\ last_call.fn = "complete" =>
          \E t \in tasks : t.id = last_call.task /\ t.posted_by = last_call.by

PosterCompletedOwnTask ==
    /\ last_call.fn = "complete" /\ last_call.rowcount = 1
    /\ \E t \in tasks : t.posted_by # last_call.by

\* C9: create adds exactly one task: a fresh id, status Open, no accepter,
\* the poster given, created_at = updated_at; the other tasks are unchanged.
CreateAddsOneOpenTask ==
    [][ Called("create") =>
          \E n \in tasks' :
              /\ n.id \notin TaskIds
              /\ tasks' = tasks \cup { n }
              /\ Cardinality(tasks') = Cardinality(tasks) + 1
              /\ n.status = "Open" /\ n.accepted_by = NULL
              /\ n.posted_by = last_call'.arg
              /\ n.created_at = n.updated_at /\ n.created_at = clock' ]_vars

CreatedBesideOtherTasks ==
    /\ last_call.fn = "create" /\ Cardinality(tasks) >= 2
    /\ \E t \in tasks : t.status = "Accepted"

\* ------------------------------------------------------------- ranking claims
\* A query is blank when it holds no word at all ("" or whitespace only).
Blank(query) == Range(query) \subseteq Blanks

\* The result holds every input task once, each beside its own score.
IsPermutationWithScores(result, task_list, query) ==
    /\ Len(result) = Len(task_list)
    /\ \A i \in DOMAIN task_list :
          Cardinality({ j \in DOMAIN result : result[j][1] = task_list[i] }) = 1
    /\ \A j \in DOMAIN result : \E i \in DOMAIN task_list :
          result[j] = << task_list[i], Scores(task_list, query)[i] >>

\* Scores do not rise along the result, and equal scores keep the input
\* order (the input ids fall, so the ids of a tie fall too).
IsSortedStable(result) ==
    \A i, j \in DOMAIN result :
        i < j => \/ result[i][2] > result[j][2]
                 \/ result[i][2] = result[j][2] /\ result[i][1].id > result[j][1].id

\* C10: for every non-empty candidate list and non-blank query, rank returns
\* a permutation of the input paired with the scores, by non-increasing
\* score, ties in input order.
RankReturnsStableSortedPermutation ==
    ( /\ rank_result.state # "pending"
      /\ rank_tasks # << >>
      /\ ~ Blank(rank_query) )
    => /\ rank_result.state = "returned"
       /\ IsPermutationWithScores(rank_result.value, rank_tasks, rank_query)
       /\ IsSortedStable(rank_result.value)

\* What the calls that return do satisfy: the order is the stable one.
RankReturnedIsStableSortedPermutation ==
    rank_result.state = "returned"
    => /\ IsPermutationWithScores(rank_result.value, rank_tasks, rank_query)
       /\ IsSortedStable(rank_result.value)

\* The fallback of the specification: the lowercase terms of a text that are
\* longer than one character, as a set.
OverlapTerms(text) ==
    { Lower(w) : w \in { v \in Range(text) : v \notin OneChar \cup Blanks } }

OverlapCount(query, doc) ==
    Cardinality(OverlapTerms(query) \cap OverlapTerms(doc))

AllPrimaryZero(task_list, query) ==
    \A i \in DOMAIN task_list : Scores(task_list, query)[i] = 0

\* C11: when every primary score is 0 and the query is not blank, the scores
\* returned are the term-overlap counts of query and document.
FallbackScoresAreOverlapCounts ==
    ( /\ rank_result.state = "returned"
      /\ rank_tasks # << >>
      /\ ~ Blank(rank_query)
      /\ AllPrimaryZero(rank_tasks, rank_query) )
    => \A j \in DOMAIN rank_result.value :
          rank_result.value[j][2]
            = OverlapCount(rank_query, Doc(rank_result.value[j][1]))

\* C12: for a blank query and a non-empty list every score is 0 and the
\* tasks come back in the input order, from the ranker called directly and
\* from the Helper view's line alike.
BlankQueryKeepsInputOrderAtZero ==
    ( /\ rank_result.state # "pending"
      /\ rank_tasks # << >>
      /\ Blank(rank_query) )
    => rank_result
         = Returned([ i \in DOMAIN rank_tasks |-> << rank_tasks[i], 0 >> ])

\* What holds of the blank-query calls that return.
BlankQueryReturnedKeepsInputOrderAtZero ==
    ( /\ rank_result.state = "returned"
      /\ Blank(rank_query) )
    => rank_result
         = Returned([ i \in DOMAIN rank_tasks |-> << rank_tasks[i], 0 >> ])

\* C13: rank is total: no call raises, whatever the texts.
RankNeverRaises == rank_result.state # "raised"

ContentWords(text) ==
    { Lower(w) : w \in { v \in Range(text) : v \notin OneChar \cup Blanks } }
    \ StopWords

SharesTerm(doc, query) == ContentWords(doc) \cap ContentWords(query) # {}

EmptyCandidatesGiveEmptyList ==
    ( rank_tasks = << >> /\ rank_result.state # "pending" )
    => rank_result = Returned(<< >>)

\* The empty list was ranked against a query that has no term at all.
EmptyListRankedWithBlankQuery ==
    /\ rank_path = "direct"
    /\ rank_tasks = << >>
    /\ rank_query = << " " >>
    /\ rank_result.state = "returned"

RoleOf(uid) == (CHOOSE u \in Users : u.id = uid).role

\* C17: through the views, every task's poster is a user of role Poster,
\* every accepter is a user of role Helper, and no task is accepted by the
\* user who posted it.
PosterAndAccepterRolesKept ==
    \A t \in tasks :
        /\ t.posted_by \in UserIds /\ RoleOf(t.posted_by) = "Poster"
        /\ t.accepted_by # NULL
             => /\ t.accepted_by \in UserIds
                /\ RoleOf(t.accepted_by) = "Helper"
                /\ t.accepted_by # t.posted_by

\* Both posters have posted and both helpers have accepted.
EveryUserActedInRole ==
    /\ \A u \in Users : u.role = "Poster" => \E t \in tasks : t.posted_by = u.id
    /\ \A u \in Users : u.role = "Helper" => \E t \in tasks : t.accepted_by = u.id

\* ------------------------------------------------------------- stats claims
StatsConsistent ==
    /\ stats.accepted + stats.completed <= stats.posted
    /\ stats.accepted_ids \cap stats.completed_ids = {}

\* C18 as stated: the counters of one get_stats call are consistent with
\* each other even when create, accept and complete run during the call.
StatsAlwaysConsistent == stats.pc = "done" => StatsConsistent

\* C18: the counters of one get_stats call are consistent with each other
\* when no task row is written between the call's SELECTs: accepted +
\* completed <= posted and no task is behind both counts.
StatsConsistentWhenNotOverlapped ==
    ( stats.pc = "done" /\ ~ stats.overlapped ) => StatsConsistent

\* A call ran with no write inside it and counted a completed task.
StatsCountedCompletedTask ==
    /\ stats.pc = "done" /\ ~ stats.overlapped
    /\ stats.posted >= 2
    /\ stats.completed >= 1

\* ------------------------------------------------------------- sign-up claims
UniqueEmails ==
    \A u1, u2 \in users :
        NormalizeEmail(u1.email) = NormalizeEmail(u2.email) => u1 = u2

FailedInsertCreatesNothing ==
    \A b \in Browsers :
        ( signup[b].pc = "checked" /\ signup'[b].pc = "failed" ) => users' = users

\* Two browsers passed the check with the same normalized email and then
\* both ran the insert.
BothInserted(b1, b2) ==
    /\ b1 # b2
    /\ signup[b1].pc \in { "created", "failed" }
    /\ signup[b2].pc \in { "created", "failed" }
    /\ NormalizeEmail(signup[b1].email) = NormalizeEmail(signup[b2].email)

\* C19: after any interleaving of sign-ups no two user rows share a trimmed,
\* lower-cased email; an insert that fails creates no row, and of two
\* sign-ups that passed the check with the same email at most one row exists.
SignupKeepsEmailsUnique ==
    /\ [] UniqueEmails
    /\ [] ( \A b1, b2 \in Browsers :
              BothInserted(b1, b2) =>
                 Cardinality({ u \in users :
                     u.email = NormalizeEmail(signup[b1].email) }) <= 1 )
    /\ [][ FailedInsertCreatesNothing ]_vars

\* Both browsers passed the check with differently typed forms of one email;
\* one insert made the row and the other failed.
SignupRaceLost ==
    /\ signup["b1"].pc = "created"
    /\ signup["b2"].pc = "failed"
    /\ signup["b1"].email # signup["b2"].email
    /\ NormalizeEmail(signup["b1"].email) = NormalizeEmail(signup["b2"].email)
    /\ Cardinality(users) = 1

====
